---- MODULE Spec2Model ----
(***************************************************************************)
(* A model of the tiling window manager in src/src/main.c: the per-        *)
(* workspace region arenas, the layout recursion and the event handlers of *)
(* the reactor.                                                            *)
(*                                                                         *)
(* Numbers.  A split factor is a float in the source; here it is counted   *)
(* in steps of RESIZE_FACTOR, so 0.5 is FactorSteps steps and 1.0 is       *)
(* FactorOne steps.  Screen coordinates are uint16_t and wrap at 2^16.     *)
(***************************************************************************)
EXTENDS Integers, Sequences, FiniteSets, TLC

\* ---------------------------------------------------------------- bounds
\* Half the slots of one workspace's arena.  The source has 100 slots, an
\* even number, and a tree of n windows takes 2n - 1 of them: whether the
\* last slot can ever be taken depends on the number being even.
HalfRegions == 3
\* The same for the build the tiling-only model runs: a smaller arena, which
\* a run of that model can fill.
HalfTiledRegions == 2
\* Workspaces (10 in the source).
NUM_WORKSPACES == 2
\* Window ids the X server hands out.
MaxWin == 4
\* Window ids the clients of the tiling-only model use.
MaxTiledWin == 3
\* RESIZE_FACTOR steps in 0.5 (20 in the source, where the step is 0.025).
FactorSteps == 2
\* Events the loop reads in one run of the model.
MaxEvents == 4
\* Events the loop reads in one run of the tiling-only model.
MaxTiledEvents == 12
\* Forked children that a run lets come back from spawn_process_quiet.
MaxStrays == 1

\* ------------------------------------------------------------- constants
ScreenW == 800
ScreenH == 600
U16 == 65536

FactorOne == 2 * FactorSteps
RESIZE_FACTOR == 1

Workspaces == 0 .. (NUM_WORKSPACES - 1)
Windows == 1 .. MaxWin
\* The root window of the screen: an id no client window has.
RootWin == MaxWin + 1
\* The value of event->child when the pointer is over no child (XCB_NONE).
NoWindow == 0

DIR_HORIZONTAL == "H"
DIR_VERTICAL == "V"

\* A slot of static storage before anything wrote to it.
ZeroRegion ==
  [handle |-> 0, parent |-> 0, child0 |-> 0, child1 |-> 0,
   split |-> DIR_HORIZONTAL, factor |-> 0, exists |-> FALSE]

\* What a read before regions[0][0] can find: memory that is no region.
GarbageRegion ==
  [handle |-> RootWin + 1, parent |-> 0, child0 |-> 0, child1 |-> 0,
   split |-> DIR_HORIZONTAL, factor |-> 0, exists |-> TRUE]

\* MAX_REGIONS is a setting of the build: a run never changes it, and the
\* specifications below differ in the value their build was given.
\* The program's static storage (regions, root_regions, workspace, running),
\* where the process is (pc: "loop", "exited", "aborted" or "crashed"), the
\* client windows that exist at the X server (alive), those of them that the
\* manager's requests have left mapped (mapped), the number of forked
\* children that run the manager's code on the manager's X connection
\* (strays), and the number of events the loop has read (nev).
VARIABLES MAX_REGIONS, regions, root_regions, workspace, running, pc, alive,
          mapped, strays, nev

vars ==
  <<MAX_REGIONS, regions, root_regions, workspace, running, pc, alive,
    mapped, strays, nev>>

Slots == 0 .. (MAX_REGIONS - 1)

\* ------------------------------------------------------------ requests
\* One externally visible step of a handler: an X request or a log line.
Req(op, win, x, y, w, h) ==
  [op |-> op, win |-> win, x |-> x, y |-> y, w |-> w, h |-> h]

Configure(win, x, y, w, h) == Req("configure", win, x, y, w, h)
Simple(op, win) == Req(op, win, 0, 0, 0, 0)
\* The recursion of refresh_layout never returns: the stack overflows.
Overflow == Simple("overflow", 0)

\* The choices the environment makes during one handler (env):
\*   fail  the number of the X request that returns an error (0: none),
\*   neg   the uint16_t a negative float converts to (undefined in C),
\*   oobr  what a read before regions[0][0] finds,
\*   oobw  what a store before regions[0][0] hits,
\*   spawn how far a spawned child gets: "nofork" (fork fails), "nodevnull"
\*         (open fails), "exec" (execvp succeeds) or "noexec" (execvp fails).
\* ------------------------------------------------------- arena accesses
\* regions[ws][i] as the build addresses it: the arena is one block, so
\* index -1 of workspace ws is the last slot of workspace ws - 1, and index
\* -1 of workspace 0 lies before the block.
ReadAt(rs, ws, i, env) ==
  IF i \in Slots THEN rs[ws][i]
  ELSE IF ws > 0 THEN rs[ws - 1][MAX_REGIONS - 1]
  ELSE env.oobr

\* (uint16_t)(len * factor), the float factor counted in RESIZE_FACTOR steps.
ScaleU16(len, factor, env) ==
  IF factor >= 0 THEN ((len * factor) \div FactorOne) % U16
  ELSE IF (len * (0 - factor)) < FactorOne THEN 0
  ELSE IF env.neg = "zero" THEN 0
  ELSE (U16 - (((len * (0 - factor)) \div FactorOne) % U16)) % U16

\* ------------------------------------------------------- refresh_layout
RECURSIVE Layout(_, _, _, _, _, _, _, _, _)
Layout(rs, ws, region, x, y, width, height, env, fuel) ==
  IF fuel = 0 THEN <<Overflow>>
  ELSE
    LET n == ReadAt(rs, ws, region, env) IN
    IF n.handle # 0 THEN <<Configure(n.handle, x, y, width, height)>>
    ELSE
      LET w == IF n.split = DIR_HORIZONTAL
               THEN ScaleU16(width, n.factor, env) ELSE width
          h == IF n.split = DIR_VERTICAL
               THEN ScaleU16(height, n.factor, env) ELSE height
          first == Layout(rs, ws, n.child0, x, y, w, h, env, fuel - 1)
      IN
      IF Len(first) > 0 /\ first[Len(first)] = Overflow THEN first
      ELSE
        first \o
        Layout(rs, ws, n.child1,
               (x + (IF n.split = DIR_HORIZONTAL THEN w ELSE 0)) % U16,
               (y + (IF n.split = DIR_VERTICAL THEN h ELSE 0)) % U16,
               IF n.split = DIR_HORIZONTAL THEN (width - w) % U16 ELSE w,
               IF n.split = DIR_VERTICAL THEN (height - h) % U16 ELSE h,
               env, fuel - 1)

\* A path of the recursion longer than the arena (plus the slot an index of
\* -1 starts from) visits a slot twice, and then never ends.
MaxDepth == MAX_REGIONS + 2

\* ------------------------------------------------------ the machine
\* The program state a handler works on, with nreq the X requests the
\* handler has issued so far, oob whether it has indexed an arena with a
\* number outside 0 .. MAX_REGIONS - 1, and dead whether it has entered
\* refresh_layout on anything but a live region, and forked the children
\* it has forked that returned from spawn_process_quiet as the manager does.
Machine ==
  [regions |-> regions, root_regions |-> root_regions,
   workspace |-> workspace, running |-> running, pc |-> "loop",
   out |-> <<>>, nreq |-> 0, oob |-> FALSE, dead |-> FALSE, forked |-> 0]

\* log_msg: an ERROR line ends the process (abort), any other level returns.
log_msg(m, level, win) ==
  IF m.pc # "loop" THEN m
  ELSE IF level = "error"
  THEN [m EXCEPT !.out = Append(@, Simple("error", win)), !.pc = "aborted"]
  ELSE [m EXCEPT !.out = Append(@, Simple(level, win))]

\* One checked X request: xcb_request_check, and log_msg(ERROR) on an error.
Issue(m, env, r) ==
  IF m.pc # "loop" THEN m
  ELSE IF r = Overflow
  THEN [m EXCEPT !.out = Append(@, r), !.pc = "crashed"]
  ELSE
    LET sent == [m EXCEPT !.out = Append(@, r), !.nreq = @ + 1] IN
    IF sent.nreq = env.fail THEN log_msg(sent, "error", r.win) ELSE sent

RECURSIVE IssueAll(_, _, _)
IssueAll(m, env, rs) ==
  IF rs = <<>> THEN m
  ELSE IssueAll(Issue(m, env, Head(rs)), env, Tail(rs))

\* The indices refresh_layout is entered on when started on region: the
\* region itself and, below a region without a handle, what its two child
\* fields lead to.
RECURSIVE Entered(_, _, _, _, _)
Entered(rs, ws, region, env, fuel) ==
  IF fuel = 0 THEN {}
  ELSE
    {region} \cup
    LET n == ReadAt(rs, ws, region, env) IN
    IF n.handle # 0 THEN {}
    ELSE Entered(rs, ws, n.child0, env, fuel - 1)
         \cup Entered(rs, ws, n.child1, env, fuel - 1)

\* refresh_layout(root_regions[workspace], 0, 0, width, height) with
\* change_window_rect at every leaf.
refresh_layout(m, env) ==
  IF m.pc # "loop" THEN m
  ELSE
    LET ws == m.workspace
        E == Entered(m.regions, ws, m.root_regions[ws], env, MaxDepth)
    IN
    IssueAll([m EXCEPT !.oob = @ \/ ~(E \subseteq Slots),
                       !.dead = @ \/ \E i \in E :
                                       i \notin Slots
                                       \/ ~m.regions[ws][i].exists],
             env,
             Layout(m.regions, ws, m.root_regions[ws],
                    0, 0, ScreenW, ScreenH, env, MaxDepth))

\* A store to one field of regions[ws][i], addressed as ReadAt reads.
WriteAt(m, ws, i, field, val, env) ==
  IF m.pc # "loop" THEN m
  ELSE IF i \in Slots
  THEN [m EXCEPT !.regions[ws][i][field] = val]
  ELSE IF ws > 0
  THEN [m EXCEPT !.regions[ws - 1][MAX_REGIONS - 1][field] = val,
                 !.oob = TRUE]
  ELSE IF env.oobw = "running"
  THEN [m EXCEPT !.running = FALSE, !.oob = TRUE]
  ELSE [m EXCEPT !.oob = TRUE]

SetRoot(m, val) ==
  IF m.pc # "loop" THEN m
  ELSE [m EXCEPT !.root_regions[m.workspace] = val]

\* The last slot of the active arena whose handle is win, live or not
\* (the scan of add_region and of the two split shortcuts), or -1.
LastWithHandle(m, win) ==
  LET hit == {i \in Slots : m.regions[m.workspace][i].handle = win} IN
  IF hit = {} THEN -1 ELSE CHOOSE i \in hit : \A j \in hit : j <= i

\* ----------------------------------------------------- get_empty_region
FirstFree(m) ==
  LET free == {i \in Slots : ~m.regions[m.workspace][i].exists} IN
  IF free = {} THEN -1 ELSE CHOOSE i \in free : \A j \in free : i <= j

\* The error line of get_empty_region, "Too many regions", told apart from
\* the other error lines by the number logged in place of a window.
TooManyRegions == -1

get_empty_region(m) ==
  IF FirstFree(m) < 0 THEN log_msg(m, "error", TooManyRegions) ELSE m

\* ----------------------------------------------------------- add_region
\* The branch for an empty tree: slot 0 becomes the root leaf.
AddFirst(m, env, window) ==
  LET ws == m.workspace
      m1 == [m EXCEPT !.regions[ws][0] =
               [handle |-> window, parent |-> -1, child0 |-> -1,
                child1 |-> -1, split |-> DIR_HORIZONTAL, factor |-> 0,
                exists |-> TRUE]]
  IN refresh_layout(SetRoot(m1, 0), env)

\* AddLink with the two children of the new split exchanged.
AddLinkSwapped(m, env, parent, new_region, new_window_region, window) ==
  LET ws == m.workspace
      grandparent == m.regions[ws][parent].parent
      m1 == IF grandparent < 0 THEN SetRoot(m, new_region) ELSE m
      m2 == [m1 EXCEPT !.regions[ws][parent].parent = new_region]
      m3 == [m2 EXCEPT !.regions[ws][new_region] =
               [@ EXCEPT !.handle = 0, !.parent = grandparent,
                         !.child0 = parent, !.child1 = new_window_region,
                         !.split = DIR_HORIZONTAL, !.factor = FactorSteps]]
      m4 == IF grandparent < 0 THEN m3
            ELSE IF m3.regions[ws][grandparent].child0 = parent
            THEN [m3 EXCEPT !.regions[ws][grandparent].child0 = new_region]
            ELSE IF m3.regions[ws][grandparent].child1 = parent
            THEN [m3 EXCEPT !.regions[ws][grandparent].child1 = new_region]
            ELSE log_msg(m3, "error", 0)
      m5 == IF m4.pc # "loop" THEN m4
            ELSE [m4 EXCEPT !.regions[ws][new_window_region] =
                    [@ EXCEPT !.handle = window, !.parent = new_region,
                              !.child0 = -1, !.child1 = -1,
                              !.split = DIR_HORIZONTAL, !.factor = 0]]
  IN refresh_layout(m5, env)

\* The re-linking once both slots are allocated (lines 643-669).
AddLink(m, env, parent, new_region, new_window_region, window) ==
  LET ws == m.workspace
      grandparent == m.regions[ws][parent].parent
      m1 == IF grandparent < 0 THEN SetRoot(m, new_region) ELSE m
      m2 == [m1 EXCEPT !.regions[ws][parent].parent = new_region]
      m3 == [m2 EXCEPT !.regions[ws][new_region] =
               [@ EXCEPT !.handle = 0, !.parent = grandparent,
                         !.child0 = new_window_region, !.child1 = parent,
                         !.split = DIR_HORIZONTAL, !.factor = FactorSteps]]
      m4 == IF grandparent < 0 THEN m3
            ELSE IF m3.regions[ws][grandparent].child0 = parent
            THEN [m3 EXCEPT !.regions[ws][grandparent].child0 = new_region]
            ELSE IF m3.regions[ws][grandparent].child1 = parent
            THEN [m3 EXCEPT !.regions[ws][grandparent].child1 = new_region]
            ELSE log_msg(m3, "error", 0)
      m5 == IF m4.pc # "loop" THEN m4
            ELSE [m4 EXCEPT !.regions[ws][new_window_region] =
                    [@ EXCEPT !.handle = window, !.parent = new_region,
                              !.child0 = -1, !.child1 = -1,
                              !.split = DIR_HORIZONTAL, !.factor = 0]]
  IN refresh_layout(m5, env)

add_region(m, env, parent_window, window) ==
  LET ws == m.workspace IN
  IF m.root_regions[ws] < 0 THEN AddFirst(m, env, window)
  ELSE
    LET found == LastWithHandle(m, parent_window)
        parent == IF found < 0 THEN m.root_regions[ws] ELSE found
        a1 == get_empty_region(m)
    IN
    IF a1.pc # "loop" THEN a1
    ELSE
      LET new_region == FirstFree(a1)
          a2 == [a1 EXCEPT !.regions[ws][new_region].exists = TRUE]
          a3 == get_empty_region(a2)
      IN
      IF a3.pc # "loop" THEN a3
      ELSE
        LET new_window_region == FirstFree(a3)
            a4 == [a3 EXCEPT !.regions[ws][new_window_region].exists = TRUE]
        IN AddLink(a4, env, parent, new_region, new_window_region, window)

\* -------------------------------------------------------- remove_region
\* The branch for a leaf without a parent (lines 674-680): the store after
\* root_regions[workspace] = -1 goes to regions[workspace][-1].
RemoveRoot(m, env, region) ==
  LET ws == m.workspace
      m1 == IF region # m.root_regions[ws] THEN log_msg(m, "error", 0) ELSE m
      m2 == SetRoot(m1, -1)
  IN WriteAt(m2, ws, -1, "exists", FALSE, env)

\* RemoveChild with the removed leaf itself taken for its sibling.
RemoveChildSelf(m, env, region, parent) ==
  LET ws == m.workspace
      m1 == [m EXCEPT !.regions[ws][parent].exists = FALSE]
      p == m1.regions[ws][parent]
      known == p.child0 = region \/ p.child1 = region
      sibling == IF p.child0 = region THEN p.child0 ELSE p.child1
      m2 == IF known THEN m1 ELSE log_msg(m1, "error", 0)
      grandparent == p.parent
  IN
  IF grandparent < 0
  THEN refresh_layout(WriteAt(SetRoot(m2, sibling), ws, sibling,
                              "parent", -1, env), env)
  ELSE
    LET m3 == WriteAt(m2, ws, sibling, "parent", grandparent, env)
        g == m3.regions[ws][grandparent]
        m4 == IF m3.pc # "loop" THEN m3
              ELSE IF g.child0 = parent
              THEN [m3 EXCEPT !.regions[ws][grandparent].child0 = sibling]
              ELSE IF g.child1 = parent
              THEN [m3 EXCEPT !.regions[ws][grandparent].child1 = sibling]
              ELSE log_msg(m3, "error", 0)
    IN refresh_layout(m4, env)

\* The branch for a leaf under a split (lines 681-709).
RemoveChild(m, env, region, parent) ==
  LET ws == m.workspace
      m1 == [m EXCEPT !.regions[ws][parent].exists = FALSE]
      p == m1.regions[ws][parent]
      known == p.child0 = region \/ p.child1 = region
      sibling == IF p.child0 = region THEN p.child1 ELSE p.child0
      m2 == IF known THEN m1 ELSE log_msg(m1, "error", 0)
      grandparent == p.parent
  IN
  IF grandparent < 0
  THEN refresh_layout(WriteAt(SetRoot(m2, sibling), ws, sibling,
                              "parent", -1, env), env)
  ELSE
    LET m3 == WriteAt(m2, ws, sibling, "parent", grandparent, env)
        g == m3.regions[ws][grandparent]
        m4 == IF m3.pc # "loop" THEN m3
              ELSE IF g.child0 = parent
              THEN [m3 EXCEPT !.regions[ws][grandparent].child0 = sibling]
              ELSE IF g.child1 = parent
              THEN [m3 EXCEPT !.regions[ws][grandparent].child1 = sibling]
              ELSE log_msg(m3, "error", 0)
    IN refresh_layout(m4, env)

remove_region(m, env, region) ==
  LET ws == m.workspace
      m1 == [m EXCEPT !.regions[ws][region].exists = FALSE]
      parent == m1.regions[ws][region].parent
  IN
  IF parent < 0 THEN RemoveRoot(m1, env, region)
  ELSE RemoveChild(m1, env, region, parent)

\* ------------------------------------------------------ keymap handlers
\* handle_keymap_quit without its assignment.
handle_keymap_quit_skip(m, env, child, data) == m

handle_keymap_quit(m, env, child, data) ==
  IF m.pc # "loop" THEN m ELSE [m EXCEPT !.running = FALSE]

handle_keymap_close(m, env, child, data) ==
  Issue(m, env, Simple("send_event", child))

\* if (!fork()) { open, dup2, dup2, close, execvp }: the manager skips the
\* block and returns.  The child ends in log_msg(ERROR) when open fails and
\* becomes the program when execvp succeeds; when execvp fails it returns
\* -1, the block ends and the child returns to the caller as the manager
\* does, with a copy of the manager's memory and its X connection.
spawn_process_quiet(m, env) ==
  IF env.spawn = "noexec" THEN [m EXCEPT !.forked = @ + 1] ELSE m

handle_keymap_spawnprocess(m, env, child, data) ==
  IF m.pc # "loop" THEN m ELSE spawn_process_quiet(m, env)

\* handle_keymap_togglesplitdir with the split set to DIR_VERTICAL whatever
\* it was.
handle_keymap_togglesplitdir_set(m, env, child, data) ==
  IF m.pc # "loop" THEN m
  ELSE
    LET ws == m.workspace
        region == LastWithHandle(m, child)
    IN
    IF region < 0 THEN m
    ELSE
      LET parent == m.regions[ws][region].parent IN
      IF parent < 0 THEN m
      ELSE
        refresh_layout(
          [m EXCEPT !.regions[ws][parent].split = DIR_VERTICAL], env)

handle_keymap_togglesplitdir(m, env, child, data) ==
  IF m.pc # "loop" THEN m
  ELSE
    LET ws == m.workspace
        region == LastWithHandle(m, child)
    IN
    IF region < 0 THEN m
    ELSE
      LET parent == m.regions[ws][region].parent IN
      IF parent < 0 THEN m
      ELSE
        refresh_layout(
          [m EXCEPT !.regions[ws][parent].split =
             IF @ = DIR_HORIZONTAL THEN DIR_VERTICAL ELSE DIR_HORIZONTAL],
          env)

\* factor += data; then the two comparisons against 1 - data and data.
Clamp(factor, data) ==
  LET f1 == factor + data
      f2 == IF f1 > FactorOne - data THEN FactorOne - data ELSE f1
  IN IF f2 < data THEN data ELSE f2

handle_keymap_incsplitfactor(m, env, child, data) ==
  IF m.pc # "loop" THEN m
  ELSE
    LET ws == m.workspace
        region == LastWithHandle(m, child)
    IN
    IF region < 0 THEN m
    ELSE
      LET parent == m.regions[ws][region].parent IN
      IF parent < 0 THEN m
      ELSE
        refresh_layout(
          [m EXCEPT !.regions[ws][parent].factor = Clamp(@, data)], env)

\* The handles of the live leaves of workspace ws, in slot order.
RECURSIVE LeafRequests(_, _, _, _)
LeafRequests(m, ws, op, i) ==
  IF i >= MAX_REGIONS THEN <<>>
  ELSE
    LET r == m.regions[ws][i] IN
    (IF r.exists /\ r.handle # 0 THEN <<Simple(op, r.handle)>> ELSE <<>>)
    \o LeafRequests(m, ws, op, i + 1)

\* handle_keymap_workspace with the map loop run over the arena that was
\* active before the switch.
handle_keymap_workspace_stay(m, env, child, data) ==
  IF m.pc # "loop" THEN m
  ELSE
    LET m1 == IssueAll(m, env, LeafRequests(m, m.workspace, "unmap", 0))
        m2 == IF m1.pc # "loop" THEN m1 ELSE [m1 EXCEPT !.workspace = data]
        m3 == IssueAll(m2, env, LeafRequests(m2, m.workspace, "map", 0))
    IN
    IF m3.pc # "loop" \/ m3.root_regions[m3.workspace] < 0 THEN m3
    ELSE refresh_layout(m3, env)

\* handle_keymap_workspace with the map loop run before the unmap loop.
handle_keymap_workspace_mapfirst(m, env, child, data) ==
  IF m.pc # "loop" THEN m
  ELSE
    LET m1 == IssueAll(m, env, LeafRequests(m, data, "map", 0))
        m2 == IssueAll(m1, env, LeafRequests(m1, m.workspace, "unmap", 0))
        m3 == IF m2.pc # "loop" THEN m2 ELSE [m2 EXCEPT !.workspace = data]
    IN
    IF m3.pc # "loop" \/ m3.root_regions[m3.workspace] < 0 THEN m3
    ELSE refresh_layout(m3, env)

handle_keymap_workspace(m, env, child, data) ==
  IF m.pc # "loop" THEN m
  ELSE
    LET m1 == IssueAll(m, env, LeafRequests(m, m.workspace, "unmap", 0))
        m2 == IF m1.pc # "loop" THEN m1 ELSE [m1 EXCEPT !.workspace = data]
        m3 == IssueAll(m2, env, LeafRequests(m2, data, "map", 0))
    IN
    IF m3.pc # "loop" \/ m3.root_regions[m3.workspace] < 0 THEN m3
    ELSE refresh_layout(m3, env)

\* ------------------------------------------------------------- KEYMAPS
MOD1 == "Mod1"
MOD4 == "Mod4"
SHIFT == "Shift"

Digits == <<"0", "1", "2", "3", "4", "5", "6", "7", "8", "9">>

Keymap(modifiers, keysym, handler, data) ==
  [modifiers |-> modifiers, keysym |-> keysym, handler |-> handler,
   data |-> data]

\* The table of the source, with one workspace entry per workspace.
KEYMAPS ==
  << Keymap({MOD1, SHIFT}, "c", "quit", 0),
     Keymap({MOD1, SHIFT}, "q", "close", 0),
     Keymap({MOD1}, "Return", "spawnprocess", 0),
     Keymap({MOD1}, "d", "spawnprocess", 1),
     Keymap({MOD1}, "k", "togglesplitdir", 0),
     Keymap({MOD1}, "l", "incsplitfactor", RESIZE_FACTOR),
     Keymap({MOD1}, "h", "incsplitfactor", 0 - RESIZE_FACTOR) >>
  \o [i \in 1 .. NUM_WORKSPACES |->
        Keymap({MOD1}, Digits[i], "workspace", i - 1)]

NUM_KEYMAPS == Len(KEYMAPS)

RunHandler(m, env, child, k) ==
  CASE k.handler = "quit" -> handle_keymap_quit(m, env, child, k.data)
    [] k.handler = "close" -> handle_keymap_close(m, env, child, k.data)
    [] k.handler = "spawnprocess" ->
         handle_keymap_spawnprocess(m, env, child, k.data)
    [] k.handler = "togglesplitdir" ->
         handle_keymap_togglesplitdir(m, env, child, k.data)
    [] k.handler = "incsplitfactor" ->
         handle_keymap_incsplitfactor(m, env, child, k.data)
    [] k.handler = "workspace" ->
         handle_keymap_workspace(m, env, child, k.data)

\* (event->state & modifiers) && keysym == KEYMAPS[i].keysym
Matches(state, keysym, k) ==
  (state \cap k.modifiers # {}) /\ keysym = k.keysym

RECURSIVE KeyLoop(_, _, _, _, _, _)
KeyLoop(m, env, state, keysym, child, i) ==
  IF i > NUM_KEYMAPS THEN m
  ELSE
    KeyLoop(IF Matches(state, keysym, KEYMAPS[i])
            THEN RunHandler(m, env, child, KEYMAPS[i]) ELSE m,
            env, state, keysym, child, i + 1)

handle_key_press(m, env, state, keysym, child) ==
  KeyLoop(m, env, state, keysym, child, 1)

\* ------------------------------------------------------ event handlers
\* window_isfloat: no reply logs a warning and counts as not floating.
window_isfloat(m, attr, window) ==
  IF attr = "error" THEN log_msg(m, "warning", window) ELSE m

handle_create_notify(m, env, parent, window, attr) ==
  LET m1 == window_isfloat(m, attr, window) IN
  IF attr = "float" THEN m1 ELSE add_region(m1, env, parent, window)

\* LastLiveWithHandle without the test of exists.
LastFreedOrLiveWithHandle(m, win) ==
  LET hit == {i \in Slots : m.regions[m.workspace][i].handle = win} IN
  IF hit = {} THEN -1 ELSE CHOOSE i \in hit : \A j \in hit : j <= i

\* The last live slot of the active arena with this handle, or -1.
LastLiveWithHandle(m, win) ==
  LET hit == {i \in Slots : m.regions[m.workspace][i].exists
                            /\ m.regions[m.workspace][i].handle = win} IN
  IF hit = {} THEN -1 ELSE CHOOSE i \in hit : \A j \in hit : j <= i

handle_destroy_notify(m, env, window) ==
  LET region == LastLiveWithHandle(m, window) IN
  IF region < 0 THEN log_msg(m, "warning", window)
  ELSE remove_region(m, env, region)

handle_map_request(m, env, window) == Issue(m, env, Simple("map", window))

handle_configure_request(m, env, window, x, y, w, h) ==
  Issue(m, env, Configure(window, x, y, w, h))

\* ------------------------------------------------------------ the loop
\* The choices of the environment that can matter to a handler started in
\* the current state: a negative factor needs one to exist or to be made by
\* the decrement shortcut, and only workspace 0 has memory before its arena.
Envs(decrements) ==
  [fail : {0},
   neg : IF \E ws \in Workspaces, i \in Slots :
              \/ regions[ws][i].factor < 0
              \/ decrements /\ regions[ws][i].factor <= 0
         THEN {"wrap", "zero"} ELSE {"wrap"},
   oobr : IF workspace = 0 THEN {ZeroRegion, GarbageRegion} ELSE {ZeroRegion},
   oobw : IF workspace = 0 THEN {"none", "running"} ELSE {"none"},
   spawn : {"exec"}]

\* The windows left mapped once the requests out[i], out[i + 1], ... have
\* reached the server: xcb_map_window maps, xcb_unmap_window unmaps, and a
\* request that returned an error (the error line follows it) did neither.
RECURSIVE Shown(_, _, _)
Shown(shown, out, i) ==
  IF i > Len(out) THEN shown
  ELSE
    LET r == out[i]
        failed == i < Len(out) /\ out[i + 1] = Simple("error", r.win)
    IN
    Shown(IF failed THEN shown
          ELSE IF r.op = "map" THEN shown \cup {r.win}
          ELSE IF r.op = "unmap" THEN shown \ {r.win}
          ELSE shown,
          out, i + 1)

\* while (running): after the handler returns, the loop ends once running
\* is false, and cleanup follows.  A window in gone was destroyed.
Commit(m, gone) ==
  /\ regions' = m.regions
  /\ root_regions' = m.root_regions
  /\ workspace' = m.workspace
  /\ running' = m.running
  /\ pc' = IF m.pc = "loop" /\ ~m.running THEN "exited" ELSE m.pc
  /\ mapped' = (Shown(mapped, m.out, 1) \cap alive) \ gone
  /\ strays' = strays + m.forked
  /\ nev' = nev + 1
  /\ UNCHANGED MAX_REGIONS

\* The environment e in which request number f returns an error.
Failing(e, f) == [e EXCEPT !.fail = f]

\* The environment e in which a spawned child gets as far as x says.
Spawning(e, x) == [e EXCEPT !.spawn = x]

\* How far the child of a press of keysym can get: only the shortcuts of
\* handle_keymap_spawnprocess fork.
SpawnOutcomes(keysym) ==
  IF \E i \in 1 .. NUM_KEYMAPS :
       KEYMAPS[i].keysym = keysym /\ KEYMAPS[i].handler = "spawnprocess"
  THEN {"nofork", "nodevnull", "exec"}
       \cup (IF strays < MaxStrays THEN {"noexec"} ELSE {})
  ELSE {"exec"}

Ready == pc = "loop" /\ nev < MaxEvents

Hints == {NoWindow, RootWin} \cup Windows
Attrs == {"normal", "float", "error"}
ModStates == {{MOD1}, {SHIFT}, {MOD1, SHIFT}, {MOD4}}
Keysyms == {KEYMAPS[i].keysym : i \in 1 .. NUM_KEYMAPS} \cup {"x"}
Children == {NoWindow} \cup Windows

CreateNotify ==
  /\ Ready
  /\ \E parent \in Hints, window \in Windows \ alive, attr \in Attrs :
       /\ parent # window
       /\ \E e \in Envs(FALSE) :
            \E f \in 0 .. handle_create_notify(Machine, e, parent, window,
                                                attr).nreq :
              Commit(handle_create_notify(Machine, Failing(e, f), parent,
                                          window, attr), {})
       /\ alive' = alive \cup {window}

DestroyNotify ==
  /\ Ready
  /\ \E window \in alive :
       /\ \E e \in Envs(FALSE) :
            \E f \in 0 .. handle_destroy_notify(Machine, e, window).nreq :
              Commit(handle_destroy_notify(Machine, Failing(e, f), window),
                     {window})
       /\ alive' = alive \ {window}

MapRequest ==
  /\ Ready
  /\ \E window \in alive :
       \E e \in Envs(FALSE) :
         \E f \in 0 .. handle_map_request(Machine, e, window).nreq :
           Commit(handle_map_request(Machine, Failing(e, f), window), {})
  /\ UNCHANGED alive

ConfigureRequest ==
  /\ Ready
  /\ \E window \in alive :
       \E e \in Envs(FALSE) :
         \E f \in 0 .. handle_configure_request(Machine, e, window,
                                                1, 1, 1, 1).nreq :
           Commit(handle_configure_request(Machine, Failing(e, f), window,
                                           1, 1, 1, 1), {})
  /\ UNCHANGED alive

KeyPress ==
  /\ Ready
  /\ \E state \in ModStates, keysym \in Keysyms, child \in Children :
       \E e \in Envs(keysym = "h"), x \in SpawnOutcomes(keysym) :
         \E f \in 0 .. handle_key_press(Machine, Spawning(e, x), state,
                                        keysym, child).nreq :
           Commit(handle_key_press(Machine, Failing(Spawning(e, x), f),
                                   state, keysym, child), {})
  /\ UNCHANGED alive

\* MAP_NOTIFY, UNMAP_NOTIFY, KEY_RELEASE, ...: handlers with an empty body.
IgnoredEvent ==
  /\ Ready
  /\ Commit(Machine, {})
  /\ UNCHANGED alive

\* The static storage of a build with an arena of n slots, as main finds it.
Start(n) ==
  /\ MAX_REGIONS = n
  /\ regions = [ws \in Workspaces |-> [i \in 0 .. (n - 1) |-> ZeroRegion]]
  /\ root_regions = [ws \in Workspaces |-> -1]
  /\ workspace = 1
  /\ running = TRUE
  /\ pc = "loop"
  /\ alive = {}
  /\ mapped = {}
  /\ strays = 0
  /\ nev = 0

Init == Start(2 * HalfRegions)

Next ==
  \/ CreateNotify
  \/ DestroyNotify
  \/ MapRequest
  \/ ConfigureRequest
  \/ KeyPress
  \/ IgnoredEvent

Spec == Init /\ [][Next]_vars

\* ------------------------------------------- the reactor, tiling only
\* The same handlers under the events of plain tiled clients: windows that
\* are not override-redirect, announced with the root window or another
\* window id as parent, their destruction, and the workspace shortcuts; no
\* request fails.  With fewer choices per event and a smaller arena the run
\* can be longer, long enough to fill an arena.
CalmEnv == CHOOSE e \in Envs(FALSE) : e.oobw = "none"

CommitTiled(m, gone) ==
  /\ regions' = m.regions
  /\ root_regions' = m.root_regions
  /\ workspace' = m.workspace
  /\ pc' = m.pc
  /\ mapped' = (Shown(mapped, m.out, 1) \cap alive) \ gone
  /\ strays' = strays + m.forked
  /\ nev' = nev + 1
  /\ UNCHANGED <<running, MAX_REGIONS>>

TiledReady == pc = "loop" /\ nev < MaxTiledEvents

TiledCreate ==
  /\ TiledReady
  /\ \E window \in (1 .. MaxTiledWin) \ alive :
       /\ \E parent \in {RootWin} \cup ((1 .. MaxTiledWin) \ {window}) :
            CommitTiled(handle_create_notify(Machine, CalmEnv, parent,
                                             window, "normal"), {})
       /\ alive' = alive \cup {window}

TiledDestroy ==
  /\ TiledReady
  /\ \E window \in alive :
       /\ CommitTiled(handle_destroy_notify(Machine, CalmEnv, window),
                      {window})
       /\ alive' = alive \ {window}

TiledSwitch ==
  /\ TiledReady
  /\ \E i \in 1 .. NUM_WORKSPACES :
       CommitTiled(handle_key_press(Machine, CalmEnv, {MOD1}, Digits[i],
                                    NoWindow), {})
  /\ UNCHANGED alive

NextTiled ==
  \/ TiledCreate
  \/ TiledDestroy
  \/ TiledSwitch

InitTiled == Start(2 * HalfTiledRegions)

SpecTiled == InitTiled /\ [][NextTiled]_vars

\* ============================================================== claims
\* The predicates below take the program state as a record m, so that they
\* can be asked of the current state (Machine) and of what a handler returns.
LiveIn(m, ws, i) == m.regions[ws][i].exists

\* The slots a walk from the root of workspace ws visits along child links
\* (a handle marks a leaf, as in refresh_layout).
RECURSIVE Grow(_, _, _, _)
Grow(m, ws, seen, k) ==
  IF k = 0 THEN seen
  ELSE Grow(m, ws,
            seen \cup
              UNION {{m.regions[ws][i].child0, m.regions[ws][i].child1}
                       \cap Slots :
                     i \in {j \in seen : m.regions[ws][j].handle = 0}},
            k - 1)

TreeSlots(m, ws) ==
  IF m.root_regions[ws] \in Slots
  THEN Grow(m, ws, {m.root_regions[ws]}, MAX_REGIONS)
  ELSE {}

\* The live leaves of the tree of workspace ws that carry handle h.
LeavesWith(m, ws, h) ==
  {i \in TreeSlots(m, ws) : LiveIn(m, ws, i) /\ m.regions[ws][i].handle = h}

\* C1: in every state the running manager reaches, every live region that
\* is not the root of its workspace is child0 or child1 of the region its
\* parent field names.
C1_ParentLink ==
  pc = "loop" =>
    \A ws \in Workspaces, n \in Slots :
      (LiveIn(Machine, ws, n) /\ root_regions[ws] # n) =>
        LET p == regions[ws][n].parent IN
        /\ p \in Slots
        /\ regions[ws][p].child0 = n \/ regions[ws][p].child1 = n

IsLeaf(r) == r.handle # 0 /\ r.child0 = -1 /\ r.child1 = -1

IsSplit(m, ws, r) ==
  /\ r.handle = 0
  /\ r.child0 \in Slots /\ r.child1 \in Slots
  /\ LiveIn(m, ws, r.child0) /\ LiveIn(m, ws, r.child1)

\* C2: in every state the running manager reaches, every region reachable
\* from a workspace's root is a leaf (a handle, no children) or an internal
\* split (no handle) whose two children are live slots.
C2_LeafOrSplit ==
  pc = "loop" =>
    \A ws \in Workspaces : \A n \in TreeSlots(Machine, ws) :
      IsLeaf(regions[ws][n]) \/ IsSplit(Machine, ws, regions[ws][n])

\* C3: an event handled without a change of workspace leaves the arena and
\* the root index of every workspace but the active one as they were.
C3_OtherWorkspacesUntouched ==
  [][workspace' = workspace =>
       \A b \in Workspaces \ {workspace} :
         regions'[b] = regions[b] /\ root_regions'[b] = root_regions[b]]_vars

\* C4: in every state the running manager reaches, the factor of every live
\* internal split lies between RESIZE_FACTOR and 1 - RESIZE_FACTOR.
C4_FactorInRange ==
  pc = "loop" =>
    \A ws \in Workspaces, n \in Slots :
      (LiveIn(Machine, ws, n) /\ regions[ws][n].handle = 0) =>
        /\ regions[ws][n].factor >= RESIZE_FACTOR
        /\ regions[ws][n].factor <= FactorOne - RESIZE_FACTOR

\* What refresh_layout from the root of workspace ws issues in state m.
Rects(m, ws, env) ==
  Layout(m.regions, ws, m.root_regions[ws], 0, 0, ScreenW, ScreenH, env,
         MaxDepth)

RECURSIVE SumArea(_)
SumArea(rs) ==
  IF rs = <<>> THEN 0 ELSE Head(rs).w * Head(rs).h + SumArea(Tail(rs))

Overlap(a, b) ==
  /\ a.w > 0 /\ a.h > 0 /\ b.w > 0 /\ b.h > 0
  /\ a.x < b.x + b.w /\ b.x < a.x + a.w
  /\ a.y < b.y + b.h /\ b.y < a.y + a.h

\* The rectangles lie in the screen, no two of them share a pixel and their
\* areas add up to the screen's: every pixel is in exactly one of them.
Tiling(rs) ==
  /\ \A i \in 1 .. Len(rs) :
       /\ rs[i].op = "configure"
       /\ rs[i].x + rs[i].w <= ScreenW
       /\ rs[i].y + rs[i].h <= ScreenH
  /\ \A i, j \in 1 .. Len(rs) : i < j => ~Overlap(rs[i], rs[j])
  /\ SumArea(rs) = ScreenW * ScreenH

LayoutEnvs ==
  [fail : {0}, neg : {"wrap", "zero"}, oobr : {ZeroRegion}, oobw : {"none"}]

\* The states one more tree operation leads to from the current state: an
\* add, a remove, a toggle of the split or a change of the factor, as the
\* handlers of the reactor perform them, and without a failing request.
AfterTreeOp ==
  LET E == Envs(TRUE) IN
  {m \in
     {handle_create_notify(Machine, e, parent, window, "normal") :
        parent \in Hints, window \in Windows \ alive, e \in E}
     \cup
     {handle_destroy_notify(Machine, e, window) : window \in alive, e \in E}
     \cup
     {handle_key_press(Machine, e, {MOD1}, keysym, child) :
        keysym \in {"k", "l", "h"}, child \in Children, e \in E} :
   m.pc = "loop"}

TilesEveryTree(m) ==
  \A ws \in Workspaces :
    m.root_regions[ws] \in Slots =>
      \A env \in LayoutEnvs : Tiling(Rects(m, ws, env))

\* C5: in every state the running manager reaches, and in every state one
\* more tree operation leads to, the rectangles that refresh_layout gives
\* the leaves of a non-empty tree tile the screen.
C5_RefreshTiles ==
  pc = "loop" => \A m \in {Machine} \cup AfterTreeOp : TilesEveryTree(m)

\* How many live leaves of the tree of the active workspace carry handle h.
Count(m, h) == Cardinality(LeavesWith(m, m.workspace, h))

\* The live leaves of the active tree, as slots.
LiveLeaves(m) ==
  {i \in TreeSlots(m, m.workspace) :
     LiveIn(m, m.workspace, i) /\ m.regions[m.workspace][i].handle # 0}

\* C6: from every state the running manager reaches, an add that returns
\* puts exactly one more leaf with the new handle into the active tree, a
\* remove that returns takes exactly one leaf with the removed handle out
\* of it, and neither changes the number of leaves with any other handle.
C6_LeafMultiset ==
  pc = "loop" =>
    \A e \in Envs(FALSE) :
      /\ \A hint \in Hints, window \in Windows \ alive :
           LET m == add_region(Machine, e, hint, window) IN
           m.pc = "loop" =>
             \A h \in Windows :
               Count(m, h) = Count(Machine, h) + (IF h = window THEN 1 ELSE 0)
      /\ \A region \in LiveLeaves(Machine) :
           LET m == remove_region(Machine, e, region) IN
           m.pc = "loop" =>
             \A h \in Windows :
               Count(m, h) = Count(Machine, h)
                 - (IF h = regions[workspace][region].handle THEN 1 ELSE 0)

\* C7: from every state the running manager reaches, a map, configure or
\* send_event request that returns an error leaves the manager in its loop,
\* and a workspace switch in which one unmap, map or configure request
\* returns an error leaves it in its loop with the target workspace active.
C7_ErrorSurvived ==
  pc = "loop" =>
    \A e \in Envs(FALSE) :
      /\ \A window \in alive :
           /\ handle_map_request(Machine, [e EXCEPT !.fail = 1], window).pc
                = "loop"
           /\ handle_configure_request(Machine, [e EXCEPT !.fail = 1],
                                       window, 1, 1, 1, 1).pc = "loop"
           /\ handle_keymap_close(Machine, [e EXCEPT !.fail = 1], window, 0).pc
                = "loop"
      /\ \A target \in Workspaces :
           LET calm == handle_keymap_workspace(Machine, e, NoWindow, target)
           IN
           calm.pc = "loop" =>
             \A f \in 1 .. calm.nreq :
               LET m == handle_keymap_workspace(
                          Machine, [e EXCEPT !.fail = f], NoWindow, target)
               IN m.pc = "loop" /\ m.workspace = target

\* C8: from every state the running manager reaches, once the DESTROY_NOTIFY
\* of a window has been handled no workspace has a live leaf with the handle
\* of that window in its tree.
C8_DestroyedIsGone ==
  pc = "loop" =>
    \A e \in Envs(FALSE), window \in alive :
      LET m == handle_destroy_notify(Machine, e, window) IN
      m.pc = "loop" =>
        \A ws \in Workspaces : LeavesWith(m, ws, window) = {}

\* The child of a key event names a live leaf of the active workspace.
IsLiveLeafHandle(m, child) ==
  /\ child # NoWindow
  /\ \E i \in Slots :
       LiveIn(m, m.workspace, i) /\ m.regions[m.workspace][i].handle = child

\* C9: from every state the running manager reaches, the toggle shortcut
\* and the two factor shortcuts, pressed over a child that is not the handle
\* of a live leaf of the active workspace, return with every region as it
\* was and without a request.
C9_SilentNoOp ==
  pc = "loop" =>
    \A e \in Envs(TRUE), child \in Children :
      ~IsLiveLeafHandle(Machine, child) =>
        \A keysym \in {"k", "l", "h"} :
          LET m == handle_key_press(Machine, e, {MOD1}, keysym, child) IN
          /\ m.pc = "loop"
          /\ m.regions = regions
          /\ m.out = <<>>

\* add(0, w1), add(w1, w2), add(w2, w3) on the active workspace.
Spine(m, env, w1, w2, w3) ==
  add_region(add_region(add_region(m, env, NoWindow, w1), env, w1, w2),
             env, w2, w3)

\* The left spine of w3, w2, w1 on the screen, FactorOne \div 2 being 0.5.
SpineRects(w1, w2, w3) ==
  << Configure(w3, 0, 0, ScreenW \div 2, ScreenH),
     Configure(w2, ScreenW \div 2, 0, ScreenW \div 4, ScreenH),
     Configure(w1, ScreenW \div 2 + ScreenW \div 4, 0, ScreenW \div 4,
               ScreenH) >>

\* C10: from every state the running manager reaches in which the tree of
\* the active workspace is empty, adding three new windows, each with the
\* one before as hint, returns, and a refresh of the screen then configures
\* the third to the left half, the second to the next quarter and the first
\* to the last quarter.
C10_LeftSpine ==
  (pc = "loop" /\ root_regions[workspace] = -1) =>
    \A e \in Envs(FALSE) :
      \A w1 \in Windows \ alive :
        \A w2 \in Windows \ (alive \cup {w1}) :
          \A w3 \in Windows \ (alive \cup {w1, w2}) :
            LET m == Spine(Machine, e, w1, w2, w3) IN
            /\ m.pc = "loop"
            /\ Rects(m, m.workspace, e) = SpineRects(w1, w2, w3)

\* No slot of the active arena, live or freed, carries the handle win.
Unseen(m, win) ==
  \A i \in Slots : m.regions[m.workspace][i].handle # win

\* The tree of the active workspace is empty and no slot of its arena is
\* live.
EmptyArena(m) ==
  /\ m.root_regions[m.workspace] = -1
  /\ \A i \in Slots : ~LiveIn(m, m.workspace, i)

\* What the adds of the spine give: each add halves the rectangle of the
\* leaf its hint names, so the third and the second window share the left
\* half and the first keeps the right half.
HintedSpineRects(w1, w2, w3) ==
  << Configure(w3, 0, 0, ScreenW \div 4, ScreenH),
     Configure(w2, ScreenW \div 4, 0, ScreenW \div 4, ScreenH),
     Configure(w1, ScreenW \div 2, 0, ScreenW \div 2, ScreenH) >>

\* C10, amended: from every state the running manager reaches in which the
\* arena of the active workspace is empty, adding three new windows, each
\* with the one before as hint, the first two being handles no slot of the
\* arena carries, returns, and a refresh of the screen then configures the
\* third to the first quarter, the second to the second quarter and the
\* first to the right half.
C10_HintedSpine ==
  (pc = "loop" /\ EmptyArena(Machine)) =>
    \A e \in Envs(FALSE) :
      \A w1 \in Windows \ alive :
        \A w2 \in Windows \ (alive \cup {w1}) :
          \A w3 \in Windows \ (alive \cup {w1, w2}) :
            (Unseen(Machine, w1) /\ Unseen(Machine, w2)) =>
              LET m == Spine(Machine, e, w1, w2, w3) IN
              /\ m.pc = "loop"
              /\ Rects(m, m.workspace, e) = HintedSpineRects(w1, w2, w3)

\* The manager has handled events, the arena of the active workspace is
\* empty but holds the freed leaf of an earlier window, and the spine of
\* three other windows gives the three rectangles.
C10_Witness ==
  /\ pc = "loop" /\ nev > 0 /\ EmptyArena(Machine)
  /\ \E i \in Slots : regions[workspace][i].handle # 0
  /\ \E w1 \in Windows \ alive :
       \E w2 \in Windows \ (alive \cup {w1}) :
         \E w3 \in Windows \ (alive \cup {w1, w2}) :
           /\ Unseen(Machine, w1) /\ Unseen(Machine, w2)
           /\ LET m == Spine(Machine,
                             CHOOSE e \in Envs(FALSE) : TRUE, w1, w2, w3)
              IN /\ m.pc = "loop"
                 /\ Rects(m, m.workspace, CHOOSE e \in Envs(FALSE) : TRUE)
                      = HintedSpineRects(w1, w2, w3)

\* The free slots of the active arena.
FreeSlots(m) == {i \in Slots : ~LiveIn(m, m.workspace, i)}

\* The live leaves of the active arena that carry the handle hint.
LiveLeavesWith(m, hint) ==
  {i \in Slots : /\ hint # 0
                 /\ LiveIn(m, m.workspace, i)
                 /\ m.regions[m.workspace][i].handle = hint}

\* State n is state m after leaf L for window and split S were put where P
\* was: S is the split over L and P under P's old parent G, L is a leaf under
\* S, P hangs under S, S stands where P stood, and nothing else has changed.
AddedAt(m, n, P, S, L, window) ==
  LET ws == m.workspace
      old == m.regions[ws]
      G == old[P].parent
  IN
  /\ n.workspace = ws
  /\ n.root_regions =
       IF G < 0 THEN [m.root_regions EXCEPT ![ws] = S] ELSE m.root_regions
  /\ \A b \in Workspaces \ {ws} : n.regions[b] = m.regions[b]
  /\ n.regions[ws][S] =
       [handle |-> 0, parent |-> G, child0 |-> L, child1 |-> P,
        split |-> DIR_HORIZONTAL, factor |-> FactorSteps, exists |-> TRUE]
  /\ n.regions[ws][L].handle = window
  /\ n.regions[ws][L].parent = S
  /\ n.regions[ws][L].child0 = -1 /\ n.regions[ws][L].child1 = -1
  /\ n.regions[ws][L].exists
  /\ n.regions[ws][P] = [old[P] EXCEPT !.parent = S]
  /\ G \in Slots =>
       \/ old[G].child0 = P /\ n.regions[ws][G] = [old[G] EXCEPT !.child0 = S]
       \/ old[G].child1 = P /\ n.regions[ws][G] = [old[G] EXCEPT !.child1 = S]
  /\ \A i \in Slots \ {S, L, P, G} : n.regions[ws][i] = old[i]

\* C11: from every state the running manager reaches in which the active
\* tree is not empty and two slots of its arena are free, add(hint, new)
\* takes as P a live leaf with the handle hint, or the root when no live leaf
\* has it, takes two different free slots S and L, and leaves the arena as
\* it was but for S, the split over L and P under P's old parent, L, the
\* leaf of new under S, P's parent link, and the link that led to P.
C11_AddContract ==
  (pc = "loop" /\ root_regions[workspace] \in Slots
     /\ Cardinality(FreeSlots(Machine)) >= 2) =>
    \A e \in Envs(FALSE), hint \in Hints, window \in Windows \ alive :
      LET n == add_region(Machine, e, hint, window)
          Ps == IF LiveLeavesWith(Machine, hint) = {}
                THEN {root_regions[workspace]}
                ELSE LiveLeavesWith(Machine, hint)
      IN \E P \in Ps : \E S \in FreeSlots(Machine) :
           \E L \in FreeSlots(Machine) \ {S} :
             AddedAt(Machine, n, P, S, L, window)

\* The rectangles refresh_layout hands to the node target on its way down
\* from region (a set: a tree hands every node one rectangle).
RECURSIVE RectsOf(_, _, _, _, _, _, _, _, _, _)
RectsOf(rs, ws, region, target, x, y, width, height, env, fuel) ==
  IF fuel = 0 THEN {}
  ELSE
    (IF region = target THEN {<<x, y, width, height>>} ELSE {})
    \cup
    LET n == ReadAt(rs, ws, region, env) IN
    IF n.handle # 0 THEN {}
    ELSE
      LET w == IF n.split = DIR_HORIZONTAL
               THEN ScaleU16(width, n.factor, env) ELSE width
          h == IF n.split = DIR_VERTICAL
               THEN ScaleU16(height, n.factor, env) ELSE height
      IN
      RectsOf(rs, ws, n.child0, target, x, y, w, h, env, fuel - 1)
      \cup
      RectsOf(rs, ws, n.child1, target,
              (x + (IF n.split = DIR_HORIZONTAL THEN w ELSE 0)) % U16,
              (y + (IF n.split = DIR_VERTICAL THEN h ELSE 0)) % U16,
              IF n.split = DIR_HORIZONTAL THEN (width - w) % U16 ELSE w,
              IF n.split = DIR_VERTICAL THEN (height - h) % U16 ELSE h,
              env, fuel - 1)

\* The rectangle of node target in the layout of the active tree of m.
NodeRects(m, target, env) ==
  RectsOf(m.regions, m.workspace, m.root_regions[m.workspace], target,
          0, 0, ScreenW, ScreenH, env, MaxDepth)

\* State n is state m after the leaf and its parent split S were freed and
\* the other child of S was put where S was.
RemovedAt(m, n, leaf, env) ==
  LET ws == m.workspace
      old == m.regions[ws]
      S == old[leaf].parent
      G == old[S].parent
      sib == IF old[S].child0 = leaf THEN old[S].child1 ELSE old[S].child0
  IN
  /\ n.pc = "loop"
  /\ ~n.regions[ws][leaf].exists
  /\ ~n.regions[ws][S].exists
  /\ sib \in Slots
  /\ n.regions[ws][sib] = [old[sib] EXCEPT !.parent = G]
  /\ G < 0 => n.root_regions[ws] = sib
  /\ G \in Slots =>
       /\ n.root_regions[ws] = m.root_regions[ws]
       /\ \/ old[G].child0 = S
             /\ n.regions[ws][G] = [old[G] EXCEPT !.child0 = sib]
          \/ old[G].child1 = S
             /\ n.regions[ws][G] = [old[G] EXCEPT !.child1 = sib]
  /\ \A i \in Slots \ {leaf, S, sib, G} : n.regions[ws][i] = old[i]
  /\ NodeRects(m, S, env) # {}
  /\ NodeRects(n, sib, env) = NodeRects(m, S, env)

\* What the three windows of the spine are given once the second is gone.
SpineRectsWithoutSecond(w1, w3) ==
  << Configure(w3, 0, 0, ScreenW \div 2, ScreenH),
     Configure(w1, ScreenW \div 2, 0, ScreenW \div 2, ScreenH) >>

\* The leaf is a non-root leaf of a tree: its parent S is a live split with
\* the leaf as one child and another live slot as the other, and S is the
\* root or one child of a live split G.
HangsUnderSplit(m, leaf) ==
  LET ws == m.workspace
      r == m.regions[ws]
      S == r[leaf].parent
  IN
  /\ S \in Slots
  /\ r[S].exists /\ r[S].handle = 0
  /\ r[S].child0 = leaf \/ r[S].child1 = leaf
  /\ r[S].child0 # r[S].child1
  /\ r[S].child0 \in Slots /\ r[S].child1 \in Slots
  /\ r[r[S].child0].exists /\ r[r[S].child1].exists
  /\ LET G == r[S].parent IN
     IF G \in Slots
     THEN /\ r[G].exists /\ r[G].handle = 0
          /\ r[G].child0 = S \/ r[G].child1 = S
          /\ G \in TreeSlots(m, ws)
     ELSE m.root_regions[ws] = S

\* C12: from every state the running manager reaches, the remove of a live
\* non-root leaf of the active tree frees the leaf and its parent
\* split S and puts the other child of S where S was, as root or in the child
\* slot of S's parent, so that it is given the rectangle S had; and removing
\* the second window of the spine of three leaves the third the left half
\* and the first the right half of the screen.
C12_RemoveContract ==
  pc = "loop" =>
    \A e \in Envs(FALSE) :
      /\ \A leaf \in LiveLeaves(Machine) :
           HangsUnderSplit(Machine, leaf) =>
             RemovedAt(Machine, remove_region(Machine, e, leaf), leaf, e)
      /\ EmptyArena(Machine) =>
           \A w1 \in Windows \ alive :
             \A w2 \in Windows \ (alive \cup {w1}) :
               \A w3 \in Windows \ (alive \cup {w1, w2}) :
                 (Unseen(Machine, w1) /\ Unseen(Machine, w2)) =>
                   LET m == Spine(Machine, e, w1, w2, w3)
                       n == handle_destroy_notify(m, e, w2)
                   IN /\ n.pc = "loop"
                      /\ Rects(n, n.workspace, e)
                           = SpineRectsWithoutSecond(w1, w3)

\* A leaf under a split that had a parent of its own was removed: the leaf
\* and the split are freed, and the other child of the split hangs, live,
\* where the split hung.
C12_Witness ==
  /\ pc = "loop" /\ nev > 0
  /\ \E leaf \in Slots, S \in Slots, G \in Slots :
       LET r == regions[workspace] IN
       /\ ~r[leaf].exists /\ r[leaf].handle # 0 /\ r[leaf].parent = S
       /\ ~r[S].exists /\ r[S].handle = 0 /\ r[S].parent = G
       /\ r[S].child0 = leaf \/ r[S].child1 = leaf
       /\ r[G].exists /\ r[G].handle = 0
       /\ G \in TreeSlots(Machine, workspace)
       /\ \E sib \in {r[S].child0, r[S].child1} \ {leaf} :
            /\ sib \in Slots
            /\ r[sib].exists /\ r[sib].parent = G
            /\ r[G].child0 = sib \/ r[G].child1 = sib

\* The active tree of n has the shape of the active tree of m: the same
\* root, the same live slots, and in every live slot the same links, split
\* direction, factor and handle.
SameShape(m, n) ==
  LET ws == m.workspace IN
  /\ n.workspace = ws
  /\ n.root_regions[ws] = m.root_regions[ws]
  /\ \A i \in Slots :
       /\ n.regions[ws][i].exists = m.regions[ws][i].exists
       /\ m.regions[ws][i].exists => n.regions[ws][i] = m.regions[ws][i]

\* add(hint, window) and then the remove of the leaf of window, as
\* DESTROY_NOTIFY finds it.
AddThenRemove(m, env, hint, window) ==
  LET a == add_region(m, env, hint, window)
      leaf == LastLiveWithHandle(a, window)
  IN IF a.pc # "loop" \/ leaf < 0 THEN [a EXCEPT !.pc = "aborted"]
     ELSE remove_region(a, env, leaf)

\* C13: from every state the running manager reaches in which the active
\* arena has the free slots an add needs (one for an empty tree, two
\* otherwise), add(hint, w) for a window w that does not exist, followed at
\* once by the remove of the leaf of w, returns and leaves the active tree
\* with the shape it had: root, live slots, links, splits, factors, handles.
C13_AddRemoveRoundTrip ==
  (pc = "loop"
     /\ Cardinality(FreeSlots(Machine))
          >= (IF root_regions[workspace] < 0 THEN 1 ELSE 2)) =>
    \A e \in Envs(FALSE), hint \in Hints, window \in Windows \ alive :
      LET n == AddThenRemove(Machine, e, hint, window) IN
      n.pc = "loop" /\ SameShape(Machine, n)

\* The windows the requests of kind op in rs name.
WindowsOf(rs, op) == {rs[i].win : i \in {j \in 1 .. Len(rs) : rs[j].op = op}}

\* What a handler that took m to n has issued.
IssuedBetween(m, n) == SubSeq(n.out, Len(m.out) + 1, Len(n.out))

\* The switch to workspace b and, with no event in between, the switch back
\* to the workspace that was active.
There(m, env, b) == handle_keymap_workspace(m, env, NoWindow, b)
AndBack(m, env, b) ==
  handle_keymap_workspace(There(m, env, b), env, NoWindow, m.workspace)

\* C14: from every state the running manager reaches, a switch to any
\* workspace followed at once by the switch back returns with the first
\* workspace active, its arena and root index as they were, and the second
\* switch asks to map exactly the windows the first asked to unmap.
C14_SwitchRoundTrip ==
  pc = "loop" =>
    \A e \in Envs(FALSE), b \in Workspaces :
      LET there == There(Machine, e, b)
          back == AndBack(Machine, e, b)
      IN
      /\ back.pc = "loop"
      /\ back.workspace = workspace
      /\ back.regions[workspace] = regions[workspace]
      /\ back.root_regions[workspace] = root_regions[workspace]
      /\ WindowsOf(IssuedBetween(there, back), "map")
           = WindowsOf(there.out, "unmap")

\* The manager has switched workspaces, windows are tiled on the active
\* workspace and on another, and the switch there and back unmaps and maps
\* again the windows of the active one.
C14_Witness ==
  /\ pc = "loop" /\ workspace = 0
  /\ LiveLeaves(Machine) # {}
  /\ \E b \in Workspaces \ {workspace} :
       /\ \E i \in Slots : regions[b][i].exists /\ regions[b][i].handle # 0
       /\ LET e == CHOOSE e \in Envs(FALSE) : TRUE
              there == There(Machine, e, b)
              back == AndBack(Machine, e, b)
          IN /\ back.pc = "loop"
             /\ WindowsOf(there.out, "unmap") # {}
             /\ WindowsOf(there.out, "unmap") # WindowsOf(there.out, "map")
             /\ WindowsOf(IssuedBetween(there, back), "map")
                  = WindowsOf(there.out, "unmap")

\* The slots of the arena of workspace ws that hold a live leaf.
LiveLeafSlots(m, ws) ==
  {i \in Slots : m.regions[ws][i].exists /\ m.regions[ws][i].handle # 0}

\* The requests rs[from + 1 .. from + k] are of kind op, one for every live
\* leaf of workspace ws.
OnePerLeaf(m, ws, rs, from, k, op) ==
  /\ k = Cardinality(LiveLeafSlots(m, ws))
  /\ \A i \in (from + 1) .. (from + k) : rs[i].op = op
  /\ \A h \in Windows :
       Cardinality({i \in (from + 1) .. (from + k) : rs[i].win = h})
         = Cardinality({i \in LiveLeafSlots(m, ws) :
                          m.regions[ws][i].handle = h})

\* The requests of a switch from state m to workspace t: the unmaps of the
\* leaves of the workspace left, the maps of the leaves of t and, when the
\* tree of t is not empty, the configures of its refresh, in this order.
SwitchOrder(m, n, t, env) ==
  LET rs == IssuedBetween(m, n)
      nU == Cardinality(LiveLeafSlots(m, m.workspace))
      nM == Cardinality(LiveLeafSlots(m, t))
      refresh == IF m.root_regions[t] < 0 THEN <<>> ELSE Rects(m, t, env)
  IN
  /\ n.pc = "loop"
  /\ n.workspace = t
  /\ Len(rs) = nU + nM + Len(refresh)
  /\ OnePerLeaf(m, m.workspace, rs, 0, nU, "unmap")
  /\ OnePerLeaf(m, t, rs, nU, nM, "map")
  /\ SubSeq(rs, nU + nM + 1, Len(rs)) = refresh
  /\ \A i \in 1 .. Len(refresh) : refresh[i].op = "configure"

\* No workspace has a live slot or a tree.
AllEmpty(m) ==
  \A ws \in Workspaces :
    /\ m.root_regions[ws] = -1
    /\ \A i \in Slots : ~m.regions[ws][i].exists

\* C15: from every state the running manager reaches, a switch to workspace
\* t asks to unmap every live leaf of the workspace left, makes t the
\* active workspace, asks to map every live leaf of t and then, only when
\* the tree of t is not empty, refreshes it against the screen; and with no
\* window tiled anywhere, add W1, switch to another workspace, add W2 and
\* switch back asks to unmap W2, to map W1 and to give W1 the screen.
C15_SwitchOrder ==
  pc = "loop" =>
    \A e \in Envs(FALSE) :
      /\ \A t \in Workspaces :
           SwitchOrder(Machine,
                       handle_keymap_workspace(Machine, e, NoWindow, t), t, e)
      /\ AllEmpty(Machine) =>
           \A b \in Workspaces \ {workspace} :
             \A w1 \in Windows \ alive : \A w2 \in Windows \ (alive \cup {w1}) :
               LET m1 == add_region(Machine, e, NoWindow, w1)
                   m2 == handle_keymap_workspace(m1, e, NoWindow, b)
                   m3 == add_region(m2, e, NoWindow, w2)
                   m4 == handle_keymap_workspace(m3, e, NoWindow, workspace)
               IN
               /\ m4.pc = "loop"
               /\ IssuedBetween(m1, m2) = <<Simple("unmap", w1)>>
               /\ IssuedBetween(m3, m4) =
                    << Simple("unmap", w2), Simple("map", w1),
                       Configure(w1, 0, 0, ScreenW, ScreenH) >>

\* A window was added on the first workspace, the manager switched to the
\* other, a second window was added there and the manager switched back:
\* each workspace has one leaf as its root.
C15_Witness ==
  /\ pc = "loop" /\ nev = 4 /\ workspace = 1
  /\ \A ws \in Workspaces :
       /\ root_regions[ws] = 0
       /\ LiveLeafSlots(Machine, ws) = {0}
       /\ \A i \in Slots \ {0} : regions[ws][i] = ZeroRegion
  /\ regions[0][0].handle # regions[1][0].handle

\* The entry's keysym is the event's and every modifier of its mask is held.
MaskContained(state, keysym, k) ==
  (k.modifiers \subseteq state) /\ keysym = k.keysym

\* The actions of the entries from i on that MaskContained selects, run in
\* table order.
RECURSIVE RunContained(_, _, _, _, _, _)
RunContained(m, env, state, keysym, child, i) ==
  IF i > NUM_KEYMAPS THEN m
  ELSE
    RunContained(IF MaskContained(state, keysym, KEYMAPS[i])
                 THEN RunHandler(m, env, child, KEYMAPS[i]) ELSE m,
                 env, state, keysym, child, i + 1)

\* C16: from every state the running manager reaches, the handling of a
\* KEY_PRESS does what running, in table order, the actions of exactly the
\* entries does whose keysym is the event's and whose modifier mask is
\* contained in the modifiers held: the same memory and the same requests.
C16_ContainedMaskDispatch ==
  pc = "loop" =>
    \A e \in Envs(TRUE), state \in ModStates, keysym \in Keysyms,
       child \in Children :
      handle_key_press(Machine, e, state, keysym, child)
        = RunContained(Machine, e, state, keysym, child, 1)

\* The handling of a KEY_PRESS with Mod1 and Shift held and keysym c.
QuitPress(m, env, child) ==
  handle_key_press(m, env, {MOD1, SHIFT}, "c", child)

\* C17: in every state the running manager reaches, the handler of a
\* KEY_PRESS with Mod1, Shift and keysym c returns (it neither aborts nor
\* crashes) with running false and nothing else changed; every event after
\* whose handler running is false takes the manager out of its loop; and
\* once it is out of the loop no further event is read or handled.
C17_QuitEndsLoop ==
  /\ [](pc = "loop" =>
          \A e \in Envs(FALSE), child \in Children :
            LET m == QuitPress(Machine, e, child) IN
            /\ m.pc = "loop"
            /\ ~m.running
            /\ m.regions = regions /\ m.root_regions = root_regions
            /\ m.workspace = workspace /\ m.out = <<>>)
  /\ [][/\ pc = "loop"
        /\ ~running' => pc' = "exited"]_vars
  /\ [][pc = "loop"]_vars

\* The manager has left its loop with running false while windows were
\* tiled on the active workspace.
C17_Witness ==
  /\ pc = "exited" /\ ~running
  /\ workspace = 1
  /\ LiveLeaves(Machine) # {}

\* The active arena has the free slots one add needs.
RoomForOne(m) ==
  Cardinality(FreeSlots(m))
    >= (IF m.root_regions[m.workspace] < 0 THEN 1 ELSE 2)

\* C18: from every state the running manager reaches in which the active
\* arena has room for one more window, the handling of a CREATE_NOTIFY
\* returns; for an override-redirect window it leaves every arena and root
\* index as it was, and for any other window the tree of the active
\* workspace has exactly one more live leaf with the handle of the window
\* and the arena and root index of every other workspace are as they were.
C18_CreateNotifyFrame ==
  (pc = "loop" /\ RoomForOne(Machine)) =>
    \A e \in Envs(FALSE), parent \in Hints, window \in Windows \ alive,
       attr \in Attrs :
      parent # window =>
        LET n == handle_create_notify(Machine, e, parent, window, attr) IN
        /\ n.pc = "loop"
        /\ n.workspace = workspace
        /\ IF attr = "float"
           THEN n.regions = regions /\ n.root_regions = root_regions
           ELSE /\ Cardinality(LeavesWith(n, workspace, window))
                     = Cardinality(LeavesWith(Machine, workspace, window)) + 1
                /\ \A b \in Workspaces \ {workspace} :
                     /\ n.regions[b] = regions[b]
                     /\ n.root_regions[b] = root_regions[b]

\* The handles of the live leaves of the arena of workspace ws.
LiveHandles(m, ws) == {m.regions[ws][i].handle : i \in LiveLeafSlots(m, ws)}

\* C19: from every state the running manager reaches, the handling of a
\* DESTROY_NOTIFY for a window that no live leaf of the active workspace
\* carries logs one warning and nothing else: every arena and root index,
\* the active workspace and running are as they were, no X request was
\* issued, and the manager is still in its loop.
C19_UnknownDestroyIgnored ==
  pc = "loop" =>
    \A e \in Envs(FALSE), window \in Windows :
      window \notin LiveHandles(Machine, workspace) =>
        LET n == handle_destroy_notify(Machine, e, window) IN
        /\ n.pc = "loop"
        /\ n.running = running
        /\ n.regions = regions
        /\ n.root_regions = root_regions
        /\ n.workspace = workspace
        /\ n.nreq = 0
        /\ n.out = <<Simple("warning", window)>>

\* The DESTROY_NOTIFY of a window tiled on another workspace was handled
\* and ignored: the window is gone, its leaf on the other workspace is still
\* live, and the manager is in its loop.
C19_Witness ==
  /\ pc = "loop" /\ running
  /\ \E b \in Workspaces \ {workspace} :
       \E w \in LiveHandles(Machine, b) \ alive :
         /\ w \notin LiveHandles(Machine, workspace)
         /\ \A i \in Slots : regions[workspace][i].handle # w

\* The last thing the handler that returned m logged is "Too many regions".
EndedArenaFull(m) ==
  /\ m.pc = "aborted"
  /\ Len(m.out) > 0
  /\ m.out[Len(m.out)] = Simple("error", TooManyRegions)

\* Every slot of the active arena that is live in m is live in n and has
\* the handle it had.
LiveSlotsKept(m, n) ==
  \A i \in Slots :
    LiveIn(m, m.workspace, i) =>
      /\ LiveIn(n, m.workspace, i)
      /\ n.regions[m.workspace][i].handle = m.regions[m.workspace][i].handle

\* C20: from every state the running manager reaches, an add for which the
\* active arena has not the free slots it needs (one for an empty tree, two
\* otherwise) ends the manager with the error "Too many regions", and an
\* add for which it has them does not end with that error and leaves every
\* live slot live and with its handle.
C20_ArenaFull ==
  pc = "loop" =>
    \A e \in Envs(FALSE), hint \in Hints, window \in Windows \ alive :
      LET n == add_region(Machine, e, hint, window) IN
      IF RoomForOne(Machine)
      THEN ~EndedArenaFull(n) /\ LiveSlotsKept(Machine, n)
      ELSE EndedArenaFull(n)

\* Mod1+k over the window of a leaf, and Mod1+k over it again with no event
\* in between.
ToggleOnce(m, env, leaf) ==
  handle_keymap_togglesplitdir(m, env, m.regions[m.workspace][leaf].handle,
                               NoWindow)
ToggleTwice(m, env, leaf) ==
  handle_keymap_togglesplitdir(ToggleOnce(m, env, leaf), env,
                               m.regions[m.workspace][leaf].handle, NoWindow)

\* C21: from every state the running manager reaches, and for every live
\* leaf of the active tree whose parent field names a slot, two toggles of the
\* split direction over the window of that leaf, one after the other, return
\* with every slot as it was (so with the parent's split direction as
\* it was), and the second toggle configures every leaf to the rectangle a
\* refresh of the tree gave it before the two toggles.
C21_ToggleTwice ==
  pc = "loop" =>
    \A e \in Envs(FALSE), leaf \in LiveLeaves(Machine) :
      regions[workspace][leaf].parent \in Slots =>
        LET once == ToggleOnce(Machine, e, leaf)
            twice == ToggleTwice(Machine, e, leaf)
        IN
        /\ twice.pc = "loop"
        /\ twice.regions = regions
        /\ twice.root_regions = root_regions
        /\ IssuedBetween(once, twice) = Rects(Machine, workspace, e)
        /\ \A i \in 1 .. Len(twice.out) : twice.out[i].op = "configure"

\* A leaf hangs under a split that a toggle has turned vertical: the leaf
\* has another rectangle than under the horizontal split, one more toggle
\* changes the rectangles again, and a second one brings these back.
C21_Witness ==
  /\ pc = "loop"
  /\ \E leaf \in LiveLeaves(Machine) :
       /\ HangsUnderSplit(Machine, leaf)
       /\ regions[workspace][regions[workspace][leaf].parent].split
            = DIR_VERTICAL
       /\ LET e == CHOOSE e \in Envs(FALSE) : TRUE
              once == ToggleOnce(Machine, e, leaf)
              twice == ToggleTwice(Machine, e, leaf)
          IN /\ once.regions[workspace][regions[workspace][leaf].parent].split
                  = DIR_HORIZONTAL
             /\ once.out # Rects(Machine, workspace, e)
             /\ IssuedBetween(once, twice) = Rects(Machine, workspace, e)

\* The windows of the live leaves of the tree of workspace ws.
TiledOn(m, ws) ==
  {m.regions[ws][i].handle :
     i \in {j \in TreeSlots(m, ws) :
              LiveIn(m, ws, j) /\ m.regions[ws][j].handle # 0}}

\* C22: in every state the running manager reaches, no window that is a
\* live leaf of the tree of a workspace other than the active one is mapped
\* by the manager.
C22_OnlyActiveShown ==
  pc = "loop" =>
    \A b \in Workspaces \ {workspace} : TiledOn(Machine, b) \cap mapped = {}

\* What the handling of one more event leads to from the current state,
\* whatever the event, with every X request succeeding.
AfterEvent ==
  LET E == Envs(TRUE) IN
  {handle_create_notify(Machine, e, parent, window, attr) :
     parent \in Hints, window \in Windows \ alive, attr \in Attrs, e \in E}
  \cup
  {handle_destroy_notify(Machine, e, window) : window \in alive, e \in E}
  \cup
  {handle_map_request(Machine, e, window) : window \in alive, e \in E}
  \cup
  {handle_configure_request(Machine, e, window, 1, 1, 1, 1) :
     window \in alive, e \in E}
  \cup
  {handle_key_press(Machine, e, state, keysym, child) :
     state \in ModStates, keysym \in Keysyms, child \in Children, e \in E}

\* C23: from every state the running manager reaches, the handler of any
\* event indexes the arenas only with numbers in 0 .. MAX_REGIONS - 1, enters
\* refresh_layout only on live regions, and its recursion ends.
C23_IndicesInRange ==
  pc = "loop" =>
    \A n \in AfterEvent : ~n.oob /\ ~n.dead /\ n.pc # "crashed"

\* The slots of workspace ws with exists = true.
LiveSlots(m, ws) == {i \in Slots : LiveIn(m, ws, i)}

\* C24: in every state the running manager reaches and for every workspace,
\* the slots with exists = true are exactly the regions reachable from the
\* root of the workspace: none when the root index is -1, and 2n - 1 when
\* the tree has n >= 1 leaves.
C24_LiveIsReachable ==
  pc = "loop" =>
    \A ws \in Workspaces :
      LET n == Cardinality({i \in TreeSlots(Machine, ws) :
                              regions[ws][i].handle # 0})
      IN
      /\ LiveSlots(Machine, ws) = TreeSlots(Machine, ws)
      /\ root_regions[ws] < 0 => LiveSlots(Machine, ws) = {}
      /\ n >= 1 => Cardinality(LiveSlots(Machine, ws)) = 2 * n - 1

\* C25: in every state the manager reaches, the manager is the only process
\* that runs shortcut dispatch and the event loop on the X connection: no
\* forked child has come back from spawn_process_quiet.
C25_OneReactor == strays = 0
====
